---- MODULE Spec2Model ----
(***************************************************************************)
(* A model of the LZSS-11 codec of nlzss11-rs: the token codec             *)
(* (LzssCode::read / LzssCode::write), the compressor (compress with its   *)
(* MatchSearcher), the decompressor (decompress) and the group framer of   *)
(* the zlib backend (Lzss11Writer).                                        *)
(*                                                                         *)
(* Positions and offsets are 0-based as in the Rust source; a TLA+         *)
(* sequence is 1-based, so byte i of a buffer s is At(s, i) = s[i + 1].    *)
(***************************************************************************)
EXTENDS Integers, Sequences, FiniteSets, TLC

VARIABLES
    pc,       \* which function is running, and where it is
    data,     \* compress: the input slice
    comp,     \* compress: its locals (out_buf, group header state, pos, searcher)
    tokens,   \* history: the tokens compress emitted, with the position of each
    writer,   \* Lzss11Writer: its fields
    fed,      \* how many of the tokens have been handed to Lzss11Writer
    enc,      \* decompress: the input slice
    dec,      \* decompress: its locals
    result,   \* decompress: the value returned (or a panic)
    header_reads, \* history: the offsets decompress read a group header from
    expanded, \* history: the tokens decompress expanded, with the output length before each
    tok       \* token codec: a (distance, length) pair, its bytes, what read returned

vars == <<pc, data, comp, tokens, writer, fed, enc, dec, result, header_reads, expanded, tok>>

----------------------------------------------------------------------------
(* Bounds of the model *)

\* compress is run on every sequence over Alphabet of at most MaxLen bytes
MaxLen == 8
\* ... and on every prefix, longer than that and of at most MaxLit bytes, of LitRun
MaxLit == 17
\* decompress is run on streams declaring at most MaxDeclared bytes ...
MaxDeclared == 5
\* ... followed by at most MaxBody bytes of group headers and tokens
MaxBody == 5
\* decompress is run on every buffer over ShortBytes of at most MaxShort bytes
MaxShort == 5
\* token lengths and distances this close to an encoding boundary are tried
TokSpread == 6
\* every token length up to this one is tried
LenDense == 300

----------------------------------------------------------------------------
(* Integer helpers: the fixed-width arithmetic of the source *)

Min(a, b) == IF a < b THEN a ELSE b
Max(a, b) == IF a > b THEN a ELSE b

RECURSIVE Pow2(_)
Pow2(n) == IF n = 0 THEN 1 ELSE 2 * Pow2(n - 1)

Shr(x, n) == x \div Pow2(n)
Shl(x, n) == x * Pow2(n)

RECURSIVE BitAnd(_, _)
BitAnd(a, b) ==
    IF a = 0 \/ b = 0 THEN 0
    ELSE (IF a % 2 = 1 /\ b % 2 = 1 THEN 1 ELSE 0) + 2 * BitAnd(a \div 2, b \div 2)

RECURSIVE BitOr(_, _)
BitOr(a, b) ==
    IF a = 0 THEN b
    ELSE IF b = 0 THEN a
    ELSE (IF a % 2 = 1 \/ b % 2 = 1 THEN 1 ELSE 0) + 2 * BitOr(a \div 2, b \div 2)

\* `x as u8`
AsU8(x) == x % 256

At(s, i) == s[i + 1]

\* &s[from..]
SliceFrom(s, from) == SubSeq(s, from + 1, Len(s))

\* LE::write_u24 / u32::to_le_bytes / LE::read_u24 / LE::read_u32
LE24(n) == <<n % 256, (n \div 256) % 256, (n \div 65536) % 256>>
LE32(n) == <<n % 256, (n \div 256) % 256, (n \div 65536) % 256, (n \div 16777216) % 256>>
ReadLE24(s) == s[1] + 256 * s[2] + 65536 * s[3]
ReadLE32(s) == s[1] + 256 * s[2] + 65536 * s[3] + 16777216 * s[4]
\* u32::to_be_bytes
BE32(n) == <<(n \div 16777216) % 256, (n \div 65536) % 256, (n \div 256) % 256, n % 256>>

----------------------------------------------------------------------------
(* Token codec: LzssCode *)

NoneVal == [kind |-> "None"]
PanicVal == [kind |-> "panic"]

\* LzssCode::read: Some((LzssCode, advance)), None, or a panic of the slice index
LzssRead(buf) ==
    IF Len(buf) < 2 THEN PanicVal                     \* buf[..2]
    ELSE
      LET pair == 256 * buf[1] + buf[2] IN
      IF BitAnd(pair, 61440) = 0 THEN
          IF Len(buf) < 3 THEN NoneVal                \* buf.get(2)?
          ELSE [kind |-> "Some",
                length |-> Shr(pair, 4) + 17,
                distance |-> BitOr(Shl(BitAnd(pair, 15), 8), buf[3]) + 1,
                advance |-> 3]
      ELSE IF BitAnd(pair, 61440) = 4096 THEN
          IF Len(buf) < 4 THEN PanicVal               \* buf[2..4]
          ELSE LET ext_pair == 256 * buf[3] + buf[4] IN
               [kind |-> "Some",
                length |-> BitOr(Shl(BitAnd(pair, 4095), 4), Shr(ext_pair, 12)) + 273,
                distance |-> BitAnd(ext_pair, 4095) + 1,
                advance |-> 4]
      ELSE [kind |-> "Some",
            length |-> Shr(pair, 12) + 1,
            distance |-> BitAnd(pair, 4095) + 1,
            advance |-> 2]

\* LzssCode::write with the 4-byte form chosen for length > 0x111 only
LzssWriteLateTier(distance, length) ==
    LET adj_dist == distance - 1 IN
    IF length > 273 THEN
        LET adj_len == length - 273 IN
        << AsU8(Shl(1, 4) + Shr(adj_len, 12)),
           AsU8(Shr(adj_len, 4)),
           AsU8(Shl(BitAnd(adj_len, 15), 4) + Shr(adj_dist, 8)),
           AsU8(BitAnd(adj_dist, 255)) >>
    ELSE IF length >= 17 THEN
        LET adj_len == length - 17 IN
        << AsU8(Shr(adj_len, 4)),
           AsU8(Shl(BitAnd(adj_len, 15), 4) + Shr(adj_dist, 8)),
           AsU8(BitAnd(adj_dist, 255)) >>
    ELSE
        LET adj_len == length - 1 IN
        << AsU8(Shl(adj_len, 4) + Shr(adj_dist, 8)),
           AsU8(BitAnd(adj_dist, 255)) >>

\* LzssCode::write: the bytes pushed to out_buf
LzssWrite(distance, length) ==
    LET adj_dist == distance - 1 IN
    IF length >= 273 THEN
        LET adj_len == length - 273 IN
        << AsU8(Shl(1, 4) + Shr(adj_len, 12)),
           AsU8(Shr(adj_len, 4)),
           AsU8(Shl(BitAnd(adj_len, 15), 4) + Shr(adj_dist, 8)),
           AsU8(BitAnd(adj_dist, 255)) >>
    ELSE IF length >= 17 THEN
        LET adj_len == length - 17 IN
        << AsU8(Shr(adj_len, 4)),
           AsU8(Shl(BitAnd(adj_len, 15), 4) + Shr(adj_dist, 8)),
           AsU8(BitAnd(adj_dist, 255)) >>
    ELSE
        LET adj_len == length - 1 IN
        << AsU8(Shl(adj_len, 4) + Shr(adj_dist, 8)),
           AsU8(BitAnd(adj_dist, 255)) >>

----------------------------------------------------------------------------
(* Match finder: make_hash and MatchSearcher *)

HASH_COUNT == 65536
TOTAL_BACKREF_LEN == 65808
TOTAL_BACKREF_POS == 4095

\* The bytes, least significant first, of the multiplier 2654435761 = 0x9E3779B1
HashMultiplier == <<177, 121, 55, 158>>

\* make_hash: (u32::from_ne_bytes(sequence).wrapping_mul(2654435761)) >> 16 on a
\* little-endian target. The product modulo 2^32 is formed byte by byte, with
\* carries, so that no intermediate value exceeds 32 bits; its two high bytes
\* are the hash.
make_hash(sequence) ==
    LET s == sequence
        k == HashMultiplier
        c0 == s[1] * k[1]
        c1 == s[1] * k[2] + s[2] * k[1] + (c0 \div 256)
        c2 == s[1] * k[3] + s[2] * k[2] + s[3] * k[1] + (c1 \div 256)
        c3 == s[1] * k[4] + s[2] * k[3] + s[3] * k[2] + s[4] * k[1] + (c2 \div 256)
    IN  (c2 % 256) + 256 * (c3 % 256)

\* search_dict: the slots that hold a position; a slot outside the domain holds
\* u32::MAX, "no entry" (MatchSearcher::new fills the table with it)
EmptyDict == << >>

\* MatchSearcher::submit_val
submit_val(search_dict, d, cur_pos) ==
    LET rest_len == Len(d) - cur_pos IN                  \* rest = &data[cur_pos..]
    IF rest_len < 4 THEN search_dict
    ELSE LET hash == make_hash(SubSeq(d, cur_pos + 1, cur_pos + 4)) % HASH_COUNT IN
         IF hash \in DOMAIN search_dict
         THEN [search_dict EXCEPT ![hash] = cur_pos]
         ELSE search_dict @@ (hash :> cur_pos)

\* the count of data[cur_pos..].iter().zip(data[prev..].iter()).take_while(a == b)
MatchLen(d, cur_pos, prev) ==
    LET n == Min(Len(d) - cur_pos, Len(d) - prev)
        stops == {i \in 0..n : i = n \/ At(d, cur_pos + i) # At(d, prev + i)}
    IN  CHOOSE i \in stops : \A j \in stops : i <= j

\* get_lz_code taking the bytes at the slot's position to be those hashed: the
\* rest of the input counts as the common prefix
get_lz_code_trusting_hash(search_dict, d, cur_pos) ==
    LET rest_len == Len(d) - cur_pos IN
    IF rest_len < 4 THEN NoneVal
    ELSE
      LET hash == make_hash(SubSeq(d, cur_pos + 1, cur_pos + 4)) % HASH_COUNT IN
      IF hash \notin DOMAIN search_dict THEN NoneVal
      ELSE
        LET prev == search_dict[hash] IN
        IF prev > cur_pos THEN NoneVal
        ELSE
          LET match_backref == cur_pos - prev IN
          IF match_backref > TOTAL_BACKREF_POS THEN NoneVal
          ELSE [kind |-> "Some",
                distance |-> match_backref,
                length |-> Min(rest_len, TOTAL_BACKREF_LEN)]

\* MatchSearcher::get_lz_code: Some((match_backref, length)) or None
get_lz_code(search_dict, d, cur_pos) ==
    LET rest_len == Len(d) - cur_pos IN                  \* rest = &data[cur_pos..]
    IF rest_len < 4 THEN NoneVal
    ELSE
      LET hash == make_hash(SubSeq(d, cur_pos + 1, cur_pos + 4)) % HASH_COUNT IN
      IF hash \notin DOMAIN search_dict THEN NoneVal      \* prev == u32::MAX
      ELSE
        LET prev == search_dict[hash] IN
        \* cur_pos.wrapping_sub(prev) wraps to more than TOTAL_BACKREF_POS
        IF prev > cur_pos THEN NoneVal
        ELSE
          LET match_backref == cur_pos - prev IN
          IF match_backref > TOTAL_BACKREF_POS THEN NoneVal
          ELSE
            LET match_len == MatchLen(d, cur_pos, prev) IN
            IF match_len < 4 THEN NoneVal
            ELSE [kind |-> "Some",
                  distance |-> match_backref,
                  length |-> Min(match_len, TOTAL_BACKREF_LEN)]

\* for p in lo..hi { searcher.submit_val(data, p) }, in increasing order of p
\* (the range is halved so that the evaluation stays shallow)
RECURSIVE SubmitRange(_, _, _, _)
SubmitRange(search_dict, d, lo, hi) ==
    IF lo >= hi THEN search_dict
    ELSE IF hi = lo + 1 THEN submit_val(search_dict, d, lo)
    ELSE LET first == SubmitRange(search_dict, d, lo, (lo + hi) \div 2) IN
         IF first = first               \* the first half is evaluated before the second
         THEN SubmitRange(first, d, (lo + hi) \div 2, hi)
         ELSE first

----------------------------------------------------------------------------
(* compress *)

\* `group_header <<= n` on a u8
ShlU8(x, n) == (x * Pow2(n)) % 256

\* out_buf with out_buf[at] = byte
SetByte(buf, at, byte) == [buf EXCEPT ![at + 1] = byte]

\* compress, lines 196-208: the magic byte and the size header
CompressHeader(len) ==
    IF len < 16777215 THEN <<17>> \o LE24(len)
    ELSE IF len \div 65536 < 65536 THEN <<17, 0, 0, 0>> \o LE32(len)   \* len < 0xFFFFFFFF
    ELSE <<17>>

\* compress, lines 194-216: everything before the loop
CompressBegin ==
    /\ pc = "compress"
    /\ comp' = [ search_dict        |-> EmptyDict,
                 out_buf            |-> CompressHeader(Len(data)) \o <<0>>,
                 group_header_pos   |-> Len(CompressHeader(Len(data))),
                 group_header       |-> 0,
                 group_header_count |-> 0,
                 pos                |-> 0 ]
    /\ pc' = "compress_loop"
    /\ UNCHANGED <<data, tokens, writer, fed, enc, dec, result, header_reads, expanded, tok>>

\* compress, lines 219-225: a full group header is written to its place and a
\* new placeholder started
FlushGroup(c) ==
    IF c.group_header_count = 8
    THEN [c EXCEPT !.out_buf = Append(SetByte(c.out_buf, c.group_header_pos, c.group_header), 0),
                   !.group_header_pos = Len(c.out_buf),
                   !.group_header = 0,
                   !.group_header_count = 0]
    ELSE c

\* compress, lines 226-238: a match token
EmitMatch(c, d, backref_dist, backref_len) ==
    [c EXCEPT !.group_header = ShlU8(c.group_header, 1) + 1,
              !.group_header_count = c.group_header_count + 1,
              !.out_buf = c.out_buf \o LzssWrite(backref_dist, backref_len),
              !.search_dict = SubmitRange(c.search_dict, d, c.pos, c.pos + backref_len),
              !.pos = c.pos + backref_len]

\* compress, lines 240-246: a literal
EmitLiteral(c, d) ==
    [c EXCEPT !.group_header = ShlU8(c.group_header, 1),
              !.group_header_count = c.group_header_count + 1,
              !.out_buf = Append(c.out_buf, At(d, c.pos)),
              !.search_dict = submit_val(c.search_dict, d, c.pos),
              !.pos = c.pos + 1]

\* compress, lines 218-247: one iteration of the loop
CompressStep ==
    /\ pc = "compress_loop"
    /\ comp.pos < Len(data)
    /\ LET c == FlushGroup(comp)
           code == get_lz_code(c.search_dict, data, c.pos)
       IN  IF code.kind = "Some"
           THEN /\ comp' = EmitMatch(c, data, code.distance, code.length)
                /\ tokens' = Append(tokens, [pos |-> c.pos, distance |-> code.distance,
                                             length |-> code.length])
           ELSE /\ comp' = EmitLiteral(c, data)
                /\ tokens' = Append(tokens, [pos |-> c.pos, distance |-> 0,
                                             length |-> At(data, c.pos)])
    /\ UNCHANGED <<pc, data, writer, fed, enc, dec, result, header_reads, expanded, tok>>

\* the last group header written as accumulated, not shifted to the top bits
FinishGroupNoShift(c) ==
    IF c.group_header_count # 0
    THEN [c EXCEPT !.out_buf = SetByte(c.out_buf, c.group_header_pos, c.group_header)]
    ELSE c

\* compress, lines 248-251: the last group header
FinishGroup(c) ==
    IF c.group_header_count # 0
    THEN LET gh == ShlU8(c.group_header, 8 - c.group_header_count) IN
         [c EXCEPT !.group_header = gh,
                   !.out_buf = SetByte(c.out_buf, c.group_header_pos, gh)]
    ELSE c

\* compress, lines 248-252: after the loop; the stream returned is handed to
\* decompress
CompressEnd ==
    /\ pc = "compress_loop"
    /\ comp.pos >= Len(data)
    /\ comp' = FinishGroup(comp)
    /\ enc' = comp'.out_buf
    /\ pc' = "decompress"
    /\ UNCHANGED <<data, tokens, writer, fed, dec, result, header_reads, expanded, tok>>

----------------------------------------------------------------------------
(* decompress *)

Running == [kind |-> "running"]
Ok == [kind |-> "Ok"]
InvalidMagic == [kind |-> "InvalidMagic"]
TooShort == [kind |-> "LibraryError", message |-> "Too short"]
InvalidIndex(i) == [kind |-> "InvalidIndex", index |-> i]
Panic == [kind |-> "panic"]

\* decompress without the check of the magic byte
DecompressHeaderNoMagic(d) ==
    IF Len(d) < 4 THEN [result |-> TooShort, pos |-> 0, out_size |-> 0]
    ELSE
      LET pos == 4
          out_size == ReadLE24(SliceFrom(d, 1))
      IN  IF out_size = 0
          THEN IF Len(d) < 8 THEN [result |-> TooShort, pos |-> pos, out_size |-> 0]
               ELSE [result |-> Running, pos |-> pos, out_size |-> ReadLE32(SliceFrom(d, 4))]
          ELSE [result |-> Running, pos |-> pos, out_size |-> out_size]

\* decompress, lines 81-94: the checks of the length and the magic byte and the
\* size header; the cursor it leaves and the declared length
DecompressHeader(d) ==
    IF Len(d) < 4 THEN [result |-> TooShort, pos |-> 0, out_size |-> 0]
    ELSE IF d[1] # 17 THEN [result |-> InvalidMagic, pos |-> 0, out_size |-> 0]
    ELSE
      LET pos == 4
          out_size == ReadLE24(SliceFrom(d, 1))
      IN  IF out_size = 0
          THEN IF Len(d) < 8 THEN [result |-> TooShort, pos |-> pos, out_size |-> 0]
               ELSE [result |-> Running, pos |-> pos, out_size |-> ReadLE32(SliceFrom(d, 4))]
          ELSE [result |-> Running, pos |-> pos, out_size |-> out_size]

\* decompress, lines 81-98: everything before the loop. Vec::with_capacity(n)
\* of bytes has capacity n.
DecompressBegin ==
    /\ pc = "decompress"
    /\ LET h == DecompressHeader(enc) IN
       /\ result' = h.result
       /\ dec' = [ pos              |-> h.pos,
                   out_size         |-> h.out_size,
                   out_buf          |-> << >>,
                   capacity         |-> h.out_size,
                   group_header     |-> 0,
                   remaining_chunks |-> 0,
                   fallback         |-> FALSE ]
       /\ pc' = IF h.result = Running THEN "decompress_loop" ELSE "returned"
    /\ header_reads' = {}
    /\ expanded' = << >>
    /\ UNCHANGED <<data, comp, tokens, writer, fed, enc, tok>>

\* The capacity of a Vec<u8> of capacity cap and length len after room for
\* `additional` more bytes is reserved (Vec::push, Vec::extend_from_within):
\* unchanged while they fit, else the larger of twice the capacity and the
\* length needed, and at least 8.
Reserve(cap, len, additional) ==
    IF cap - len >= additional THEN cap
    ELSE Max(8, Max(2 * cap, len + additional))

\* decompress, line 125: out_buf.push(out_buf.get(cpy_pos).copied().unwrap_or(0));
\* fallback records that the default of unwrap_or was taken
PushFrom(o, cpy_pos) ==
    [ out_buf  |-> Append(o.out_buf,
                          IF cpy_pos < Len(o.out_buf) THEN At(o.out_buf, cpy_pos) ELSE 0),
      capacity |-> Reserve(o.capacity, Len(o.out_buf), 1),
      fallback |-> o.fallback \/ cpy_pos >= Len(o.out_buf),
      panic    |-> o.panic ]

\* decompress, lines 123-126: for cpy_pos in lo..hi { push }, in increasing order
\* (the range is halved so that the evaluation stays shallow)
RECURSIVE PushRange(_, _, _)
PushRange(o, lo, hi) ==
    IF lo >= hi THEN o
    ELSE IF hi = lo + 1 THEN PushFrom(o, lo)
    ELSE LET first == PushRange(o, lo, (lo + hi) \div 2) IN
         IF first = first               \* the first half is evaluated before the second
         THEN PushRange(first, (lo + hi) \div 2, hi)
         ELSE first

\* the copy of a match taken from the output as it was before the copy, with 0
\* for a byte that was not there yet
CopyMatchSnapshot(out_buf, capacity, cpy_start, distance, length) ==
    [ out_buf  |-> out_buf \o [i \in 1..length |->
                                  IF cpy_start + i <= Len(out_buf)
                                  THEN out_buf[cpy_start + i] ELSE 0],
      capacity |-> Reserve(capacity, Len(out_buf), length),
      fallback |-> cpy_start + length > Len(out_buf),
      panic    |-> FALSE ]

\* decompress, lines 119-127: the copy of a match whose cpy_start is known.
\* extend_from_within panics when its range ends past the length.
CopyMatch(out_buf, capacity, cpy_start, distance, length) ==
    LET o == [out_buf |-> out_buf, capacity |-> capacity, fallback |-> FALSE, panic |-> FALSE] IN
    IF distance > length
    THEN IF cpy_start + length > Len(out_buf) THEN [o EXCEPT !.panic = TRUE]
         ELSE [o EXCEPT !.out_buf = out_buf \o SubSeq(out_buf, cpy_start + 1, cpy_start + length),
                        !.capacity = Reserve(capacity, Len(out_buf), length)]
    ELSE PushRange(o, cpy_start, cpy_start + length)

\* decompress, lines 101-105: the group header is read when none is pending
ReadGroupHeader(d, c) ==
    IF c.remaining_chunks = 0
    THEN IF c.pos >= Len(d)
         THEN [dec |-> c, result |-> InvalidIndex(c.pos), read |-> {}]
         ELSE [dec |-> [c EXCEPT !.group_header = At(d, c.pos),
                                 !.pos = c.pos + 1,
                                 !.remaining_chunks = 8],
               result |-> Running, read |-> {c.pos}]
    ELSE [dec |-> c, result |-> Running, read |-> {}]

\* decompress, lines 106-128: the token the top bit of the group header announces
ExpandToken(d, c) ==
    IF BitAnd(c.group_header, 128) = 0
    THEN IF c.pos >= Len(d)
         THEN [dec |-> c, result |-> InvalidIndex(c.pos), token |-> << >>]
         ELSE [dec |-> [c EXCEPT !.out_buf = Append(c.out_buf, At(d, c.pos)),
                                 !.capacity = Reserve(c.capacity, Len(c.out_buf), 1),
                                 !.pos = c.pos + 1],
               result |-> Running,
               token |-> <<[at |-> Len(c.out_buf), distance |-> 0, length |-> At(d, c.pos)]>>]
    ELSE
      IF c.pos > Len(d) THEN [dec |-> c, result |-> Panic, token |-> << >>]   \* &data[pos..]
      ELSE
        LET code == LzssRead(SliceFrom(d, c.pos)) IN
        IF code.kind = "panic" THEN [dec |-> c, result |-> Panic, token |-> << >>]
        ELSE IF code.kind = "None"
        THEN [dec |-> c, result |-> InvalidIndex(Len(d)), token |-> << >>]
        ELSE
          LET p == c.pos + code.advance IN
          IF code.distance > Len(c.out_buf)                         \* checked_sub
          THEN [dec |-> [c EXCEPT !.pos = p], result |-> InvalidIndex(0), token |-> << >>]
          ELSE
            LET cpy_start == Len(c.out_buf) - code.distance
                o == CopyMatch(c.out_buf, c.capacity, cpy_start, code.distance, code.length)
            IN  [dec |-> [c EXCEPT !.pos = p,
                                   !.out_buf = o.out_buf,
                                   !.capacity = o.capacity,
                                   !.fallback = c.fallback \/ o.fallback],
                 result |-> IF o.panic THEN Panic ELSE Running,
                 token |-> <<[at |-> Len(c.out_buf), distance |-> code.distance,
                              length |-> code.length]>>]

\* decompress, lines 99-132: one iteration of the loop
DecompressStep ==
    /\ pc = "decompress_loop"
    /\ Len(dec.out_buf) < dec.capacity
    /\ LET h == ReadGroupHeader(enc, dec) IN
       /\ header_reads' = header_reads \cup h.read
       /\ IF h.result # Running
          THEN /\ result' = h.result
               /\ dec' = h.dec
               /\ expanded' = expanded
               /\ pc' = "returned"
          ELSE LET t == ExpandToken(enc, h.dec) IN
               /\ result' = t.result
               /\ expanded' = expanded \o t.token
               /\ IF t.result # Running
                  THEN /\ dec' = t.dec
                       /\ pc' = "returned"
                  ELSE /\ dec' = [t.dec EXCEPT
                                    !.group_header = ShlU8(t.dec.group_header, 1),
                                    !.remaining_chunks = t.dec.remaining_chunks - 1]
                       /\ pc' = "decompress_loop"
    /\ UNCHANGED <<data, comp, tokens, writer, fed, enc, tok>>

\* decompress, lines 99 and 133: the loop ends and Ok(out_buf) is returned
DecompressEnd ==
    /\ pc = "decompress_loop"
    /\ Len(dec.out_buf) >= dec.capacity
    /\ result' = Ok
    /\ pc' = "returned"
    /\ UNCHANGED <<data, comp, tokens, writer, fed, enc, dec, header_reads, expanded, tok>>

----------------------------------------------------------------------------
(* Lzss11Writer, the framer of the zlib backend *)

\* Lzss11Writer::new, lines 22-29: the magic byte and the size header, pushed to
\* the (empty) buffer taken from dest
WriterHeader(uncompressed_size) ==
    IF uncompressed_size < 16777215
    THEN <<17>> \o SubSeq(BE32(uncompressed_size), 1, 3)
    ELSE <<17, 0, 0, 0>> \o LE32(uncompressed_size)

\* Lzss11Writer::new; compress_with_zlib_into passes data.len() as the size
WriterNew ==
    /\ pc = "returned"
    /\ writer' = [ result              |-> WriterHeader(Len(data)) \o <<0>>,
                   group_header        |-> 0,
                   group_header_count  |-> 0,
                   group_header_offset |-> Len(WriterHeader(Len(data))) ]
    /\ fed' = 0
    /\ pc' = "writer"
    /\ UNCHANGED <<data, comp, tokens, enc, dec, result, header_reads, expanded, tok>>

\* Lzss11Writer::handle_match, lines 37-43
WriterFlushGroup(w) ==
    IF w.group_header_count = 8
    THEN [w EXCEPT !.result = Append(SetByte(w.result, w.group_header_offset, w.group_header), 0),
                   !.group_header_offset = Len(w.result),
                   !.group_header = 0,
                   !.group_header_count = 0]
    ELSE w

\* the bytes Lzss11Writer::handle_match pushes for a match, lines 50-66
WriterTokenBytes(distance, length) ==
    LET adj_dist == distance - 1 IN
    IF length >= 273 THEN
        LET adj_len == length - 273 IN
        << AsU8(Shl(1, 4) + Shr(adj_len, 12)),
           AsU8(Shr(adj_len, 4)),
           AsU8(Shl(BitAnd(adj_len, 15), 4) + Shr(adj_dist, 8)),
           AsU8(BitAnd(adj_dist, 255)) >>
    ELSE IF length >= 17 THEN
        LET adj_len == length - 17 IN
        << AsU8(Shr(adj_len, 4)),
           AsU8(Shl(BitAnd(adj_len, 15), 4) + Shr(adj_dist, 8)),
           AsU8(BitAnd(adj_dist, 255)) >>
    ELSE
        LET adj_len == length - 1 IN
        << AsU8(Shl(adj_len, 4) + Shr(adj_dist, 8)),
           AsU8(BitAnd(adj_dist, 255)) >>

\* Lzss11Writer::handle_match: distance 0 announces a literal, the byte in length
handle_match(w0, distance, length) ==
    LET w == WriterFlushGroup(w0) IN
    IF distance = 0
    THEN [w EXCEPT !.group_header = ShlU8(w.group_header, 1),
                   !.group_header_count = w.group_header_count + 1,
                   !.result = Append(w.result, AsU8(length))]
    ELSE [w EXCEPT !.result = w.result \o WriterTokenBytes(distance, length),
                   !.group_header = ShlU8(w.group_header, 1) + 1,
                   !.group_header_count = w.group_header_count + 1]

\* the match callback: the writer is handed the next token, in stream order
WriterHandleMatch ==
    /\ pc = "writer"
    /\ fed < Len(tokens)
    /\ writer' = handle_match(writer, tokens[fed + 1].distance, tokens[fed + 1].length)
    /\ fed' = fed + 1
    /\ UNCHANGED <<pc, data, comp, tokens, enc, dec, result, header_reads, expanded, tok>>

\* Lzss11Writer::finish
finish(w) ==
    IF w.group_header_count # 0
    THEN LET gh == ShlU8(w.group_header, 8 - w.group_header_count) IN
         [w EXCEPT !.group_header = gh,
                   !.result = SetByte(w.result, w.group_header_offset, gh)]
    ELSE w

WriterFinish ==
    /\ pc = "writer"
    /\ fed = Len(tokens)
    /\ writer' = finish(writer)
    /\ pc' = "finished"
    /\ UNCHANGED <<data, comp, tokens, fed, enc, dec, result, header_reads, expanded, tok>>

----------------------------------------------------------------------------
(* The token codec on its own: write, then read what was written *)

TokWrite ==
    /\ pc = "tok_write"
    /\ tok' = [tok EXCEPT !.buf = LzssWrite(tok.distance, tok.length)]
    /\ pc' = "tok_read"
    /\ UNCHANGED <<data, comp, tokens, writer, fed, enc, dec, result, header_reads, expanded>>

TokRead ==
    /\ pc = "tok_read"
    /\ tok' = [tok EXCEPT !.read = LzssRead(tok.buf)]
    /\ pc' = "tok_done"
    /\ UNCHANGED <<data, comp, tokens, writer, fed, enc, dec, result, header_reads, expanded>>

----------------------------------------------------------------------------
(* Inputs *)

BoundedSeqs(S, n) == UNION {[1..k -> S] : k \in 0..n}

Zeros(n) == [i \in 1..n |-> 0]

\* Byte values of the inputs of compress. Among their 4-byte sequences,
\* <<5, 0, 0, 5>> and <<5, 18, 18, 0>> have the same hash, as have
\* <<0, 0, 0, 5>> and <<0, 18, 18, 0>>.
Alphabet == {0, 5, 18}

\* An input in which no 4 bytes occur twice: compress emits literals only
LitRun == <<0, 5, 18, 0, 18, 5, 5, 0, 0, 18, 18, 5, 18, 0, 0, 0, 5, 5, 5, 18, 5, 0>>

\* Runs of one byte: their matches need the 2-byte, the 3-byte and the 4-byte token
RunLengths == {17, 18, 273, 274}

\* A 4-byte sequence, a run, and the sequence again: the backreference to its
\* first occurrence has a distance just below, at and just above TOTAL_BACKREF_POS
Far(n) == <<5, 18, 18, 5>> \o Zeros(n) \o <<5, 18, 18, 5>>
FarRuns == (TOTAL_BACKREF_POS - 5)..(TOTAL_BACKREF_POS - 3)

\* <<5, 18, 18, 0>> takes the slot of <<5, 0, 0, 5>>, which then occurs again,
\* followed by a sequence that occurred before
CollisionInput == <<5, 0, 0, 5, 18, 18, 0, 5, 0, 0, 5, 18, 18, 0>>

Inputs ==
    BoundedSeqs(Alphabet, MaxLen)
    \cup {CollisionInput}
    \cup {SubSeq(LitRun, 1, n) : n \in (MaxLen + 1)..Min(MaxLit, Len(LitRun))}
    \cup {Zeros(n) : n \in RunLengths}
    \cup {Far(n) : n \in FarRuns \cup {5}}

\* Byte values of the buffers given to decompress: as a group header 64 announces
\* a literal and a match and 16 three literals and a match; as the first byte of
\* a token 64 and 96 start a 2-byte token, 0 a 3-byte and 16 a 4-byte token
BodyBytes == {0, 16, 64, 96}
ShortBytes == {0, 16, 17}

\* Whole streams with a complete 4-byte token, and with a match whose distance
\* exceeds its length
ExtraStreams ==
    { <<17, 5, 0, 0, 64, 0, 16, 0, 0, 0>>,
      <<17, 7, 0, 0, 8, 0, 16, 64, 96, 32, 3>>,
      <<17, 5, 0, 0, 8, 0, 16, 64, 96, 32, 3>>,
      <<17, 0, 0, 0, 7, 0, 0, 0, 8, 0, 16, 64, 96, 32, 3>> }

EncInputs ==
    BoundedSeqs(ShortBytes, MaxShort)
    \cup {<<17>> \o LE24(s) \o b : s \in 1..MaxDeclared, b \in BoundedSeqs(BodyBytes, MaxBody)}
    \cup {<<17, 0, 0, 0>> \o LE32(s) \o b :
              s \in 0..MaxDeclared, b \in BoundedSeqs(BodyBytes, MaxBody)}
    \cup ExtraStreams

\* Token lengths and distances at the boundaries of the three encodings
Near(n) == (n - TokSpread)..(n + TokSpread)
TokLengths ==
    {l \in (3..LenDense) \cup Near(273 + 4096) \cup Near(273 + 32768) \cup Near(TOTAL_BACKREF_LEN) :
         3 <= l /\ l <= TOTAL_BACKREF_LEN}
TokDistances ==
    {d \in Near(1) \cup Near(256) \cup Near(2048) \cup Near(TOTAL_BACKREF_POS) :
         1 <= d /\ d <= TOTAL_BACKREF_POS}

----------------------------------------------------------------------------
(* Specifications *)

IdleComp == [ search_dict |-> EmptyDict, out_buf |-> << >>, group_header_pos |-> 0,
              group_header |-> 0, group_header_count |-> 0, pos |-> 0 ]
IdleWriter == [ result |-> << >>, group_header |-> 0, group_header_count |-> 0,
                group_header_offset |-> 0 ]
IdleDec == [ pos |-> 0, out_size |-> 0, out_buf |-> << >>, capacity |-> 0,
             group_header |-> 0, remaining_chunks |-> 0, fallback |-> FALSE ]
IdleTok == [ distance |-> 1, length |-> 3, buf |-> << >>, read |-> NoneVal ]

\* compress(data), decompress of what it returned, and Lzss11Writer fed the
\* tokens compress emitted
Init ==
    /\ pc = "compress"
    /\ data \in Inputs
    /\ comp = IdleComp
    /\ tokens = << >>
    /\ writer = IdleWriter
    /\ fed = 0
    /\ enc = << >>
    /\ dec = IdleDec
    /\ result = Running
    /\ header_reads = {}
    /\ expanded = << >>
    /\ tok = IdleTok

Next ==
    \/ CompressBegin
    \/ CompressStep
    \/ CompressEnd
    \/ DecompressBegin
    \/ DecompressStep
    \/ DecompressEnd
    \/ WriterNew
    \/ WriterHandleMatch
    \/ WriterFinish

Spec == Init /\ [][Next]_vars

\* decompress of an arbitrary buffer
InitDec ==
    /\ pc = "decompress"
    /\ enc \in EncInputs
    /\ data = << >>
    /\ comp = IdleComp
    /\ tokens = << >>
    /\ writer = IdleWriter
    /\ fed = 0
    /\ dec = IdleDec
    /\ result = Running
    /\ header_reads = {}
    /\ expanded = << >>
    /\ tok = IdleTok

NextDec ==
    \/ DecompressBegin
    \/ DecompressStep
    \/ DecompressEnd

SpecDec == InitDec /\ [][NextDec]_vars

\* LzssCode::write and LzssCode::read of one token
InitTok ==
    /\ pc = "tok_write"
    /\ tok \in [ distance : TokDistances, length : TokLengths, buf : {<< >>}, read : {NoneVal} ]
    /\ data = << >>
    /\ comp = IdleComp
    /\ tokens = << >>
    /\ writer = IdleWriter
    /\ fed = 0
    /\ enc = << >>
    /\ dec = IdleDec
    /\ result = Running
    /\ header_reads = {}
    /\ expanded = << >>

NextTok ==
    \/ TokWrite
    \/ TokRead

SpecTok == InitTok /\ [][NextTok]_vars

----------------------------------------------------------------------------
(* Properties *)

Returned == pc \in {"returned", "writer", "finished"}
Compressed == pc \notin {"compress", "compress_loop"}

\* C1: for every byte sequence x, the empty one included,
\* decompress(compress(x)) returns Ok(x). Checked under Spec.
RoundTrip ==
    Returned => (result = Ok /\ dec.out_buf = data)

\* C2: decompress never panics, whatever the buffer: a read past its end is an
\* Err(InvalidIndex), also when a match token is announced and fewer bytes remain
\* than it needs. Checked under SpecDec.
DecompressNeverPanics ==
    result # Panic

\* C3: whenever decompress returns Ok(buf), the length of buf is the length the
\* size header declares. Checked under SpecDec.
OkHasDeclaredLength ==
    (pc = "returned" /\ result = Ok) => Len(dec.out_buf) = dec.out_size

\* The stream has the escape size header: at least 8 bytes, the magic byte, and
\* bytes 1..4 all zero
EscapeHeader(d) ==
    Len(d) >= 8 /\ d[1] = 17 /\ d[2] = 0 /\ d[3] = 0 /\ d[4] = 0

\* The loop of decompress run to its end from the locals c: the value returned
\* and the output
RECURSIVE DecodeFrom(_, _)
DecodeFrom(d, c) ==
    IF Len(c.out_buf) >= c.capacity THEN [result |-> Ok, out_buf |-> c.out_buf]
    ELSE LET h == ReadGroupHeader(d, c) IN
         IF h.result # Running THEN [result |-> h.result, out_buf |-> h.dec.out_buf]
         ELSE LET t == ExpandToken(d, h.dec) IN
              IF t.result # Running THEN [result |-> t.result, out_buf |-> t.dec.out_buf]
              ELSE DecodeFrom(d, [t.dec EXCEPT
                                    !.group_header = ShlU8(t.dec.group_header, 1),
                                    !.remaining_chunks = t.dec.remaining_chunks - 1])

\* C4: for a stream with the escape size header, the declared length is the
\* 32-bit little-endian value at bytes 4..8, the first group header is read from
\* offset 8 and none from an offset below 8, and what decompress returns is the
\* expansion of the token stream that starts at offset 8. Checked under SpecDec.
EscapeStreamStartsAtEight ==
    (EscapeHeader(enc) /\ pc # "decompress") =>
        /\ dec.out_size = ReadLE32(SubSeq(enc, 5, 8))
        /\ \A o \in header_reads : o >= 8
        /\ header_reads # {} => 8 \in header_reads
        /\ pc = "returned" =>
              LET r == DecodeFrom(enc, [IdleDec EXCEPT
                                          !.pos = 8,
                                          !.out_size = ReadLE32(SubSeq(enc, 5, 8)),
                                          !.capacity = ReadLE32(SubSeq(enc, 5, 8))])
              IN  result = r.result /\ (result = Ok => dec.out_buf = r.out_buf)

\* C5: for every length in [3, 0x10110] and distance in [1, 4095], LzssCode::read
\* of the bytes LzssCode::write produced returns the same distance and length and
\* reports as consumed the number of bytes written. Checked under SpecTok.
TokenRoundTrip ==
    pc = "tok_done" =>
        /\ tok.read.kind = "Some"
        /\ tok.read.distance = tok.distance
        /\ tok.read.length = tok.length
        /\ tok.read.advance = Len(tok.buf)

\* a 4-byte token with the largest length and distance was written and read
TokenRoundTripWitness ==
    /\ pc = "tok_done"
    /\ tok.length = TOTAL_BACKREF_LEN
    /\ tok.distance = TOTAL_BACKREF_POS
    /\ Len(tok.buf) = 4
    /\ tok.read.kind = "Some"

\* C6 as stated: for every non-empty input whose first byte is not 0x11,
\* decompress returns Err(InvalidMagic), whatever the input's length. Checked
\* under SpecDec.
MagicCheckedFirst ==
    (pc = "returned" /\ Len(enc) >= 1 /\ enc[1] # 17) => result = InvalidMagic

\* C6 as amended: for every input of at least 4 bytes whose first byte is not
\* 0x11, decompress returns Err(InvalidMagic); an input of fewer than 4 bytes
\* gets the length error, whatever its first byte. Checked under SpecDec.
MagicCheckedAfterLength ==
    pc = "returned" =>
        /\ (Len(enc) >= 4 /\ enc[1] # 17) => result = InvalidMagic
        /\ Len(enc) < 4 => result = TooShort

\* decompress returned for an input of at least 4 bytes with another first byte
MagicCheckedWitness ==
    pc = "returned" /\ Len(enc) >= 4 /\ enc[1] # 17 /\ result = InvalidMagic

\* C7: fed the size and the tokens of compress, Lzss11Writer (new, handle_match
\* per token, finish) produces the very bytes compress produces. Checked under
\* Spec.
WriterMatchesCompress ==
    pc = "finished" => writer.result = comp.out_buf

\* C8: every match compress emits, at position p with distance d and length L,
\* has 1 <= d <= 4095, d <= p, 4 <= L <= 0x10110, p + L <= len(data) and
\* data[p + i] = data[p - d + i] for all 0 <= i < L. Checked under Spec.
MatchesAreBackreferences ==
    \A k \in 1..Len(tokens) :
        LET p == tokens[k].pos
            d == tokens[k].distance
            L == tokens[k].length
        IN  d # 0 =>
              /\ 1 <= d /\ d <= 4095
              /\ d <= p
              /\ 4 <= L /\ L <= 65808
              /\ p + L <= Len(data)
              /\ \A i \in 0..(L - 1) : At(data, p + i) = At(data, p - d + i)

\* the 4 bytes at position p of the input
Gram(p) == SubSeq(data, p + 1, p + 4)

\* two different 4-byte sequences with the same hash were both submitted, the
\* later taking the slot of the earlier, and a match was emitted after that
MatchAfterCollisionWitness ==
    /\ pc = "compress_loop"
    /\ \E p1, p2 \in 0..(Len(data) - 4) :
          /\ p1 < p2
          /\ Gram(p1) # Gram(p2)
          /\ make_hash(Gram(p1)) = make_hash(Gram(p2))
          /\ \E k \in 1..Len(tokens) : tokens[k].distance # 0 /\ tokens[k].pos > p2

\* C9: when decompress expands a match token (d, L) with n bytes produced and
\* d <= n, the output afterwards has exactly n + L bytes, its first n bytes are
\* unchanged, out[n + i] = out[n + i - d] for every 0 <= i < L, on the bulk-copy
\* branch as on the byte-by-byte branch, and the default of unwrap_or is never
\* taken. Checked under SpecDec.
MatchExpansion ==
    [][ LET n == Len(dec.out_buf)
            h == ReadGroupHeader(enc, dec)
            code == LzssRead(SliceFrom(enc, h.dec.pos))
        IN  ( /\ pc = "decompress_loop"
              /\ n < dec.capacity
              /\ h.result = Running
              /\ BitAnd(h.dec.group_header, 128) # 0
              /\ code.kind = "Some"
              /\ code.distance <= n )
            =>
            ( /\ Len(dec'.out_buf) = n + code.length
              /\ SubSeq(dec'.out_buf, 1, n) = dec.out_buf
              /\ \A i \in 0..(code.length - 1) :
                    At(dec'.out_buf, n + i) = At(dec'.out_buf, n + i - code.distance)
              /\ ~dec'.fallback
              /\ result' # Panic ) ]_vars

\* decompress expanded a match that overlaps itself (d <= L) and went on
MatchExpansionWitness ==
    /\ \E k \in 1..Len(expanded) :
          /\ expanded[k].distance # 0
          /\ expanded[k].distance <= expanded[k].length
          /\ Len(dec.out_buf) >= expanded[k].at + expanded[k].length
    /\ result = Running

\* The bytes of a token of the history: a literal has distance 0 and its byte
\* as length
TokenBytes(t) == IF t.distance = 0 THEN <<t.length>> ELSE LzssWrite(t.distance, t.length)

\* The group header of the tokens ts (at most 8): bit 7 - k is 1 iff token k is
\* a match, the unused low bits are 0
RECURSIVE GroupHeaderOf(_)
GroupHeaderOf(ts) ==
    IF ts = << >> THEN 0
    ELSE (IF ts[1].distance # 0 THEN 128 ELSE 0) + GroupHeaderOf(Tail(ts)) \div 2

RECURSIVE Concat(_)
Concat(ss) == IF ss = << >> THEN << >> ELSE ss[1] \o Concat(Tail(ss))

\* The groups of the tokens ts: for each 8 tokens (fewer in the last group) the
\* header byte, then the tokens it governs
RECURSIVE Framed(_)
Framed(ts) ==
    IF ts = << >> THEN << >>
    ELSE LET g == SubSeq(ts, 1, Min(8, Len(ts))) IN
         <<GroupHeaderOf(g)>> \o Concat([k \in 1..Len(g) |-> TokenBytes(g[k])])
             \o Framed(SubSeq(ts, Len(g) + 1, Len(ts)))

\* C10: once compress has emitted n >= 1 tokens, what follows the size header is
\* ceil(n / 8) groups, each a header byte and then the up to 8 tokens it governs,
\* bit 7 - (k mod 8) of the header of group k div 8 being 1 iff token k is a
\* match and the unused low bits 0 (during the scan the header of the group
\* being filled is still in the accumulator); the tag count stays within 0..8,
\* and a new placeholder is started exactly when a token arrives with the count
\* at 8. Checked under Spec.
GroupFraming ==
    LET n == Len(tokens)
        size_header == CompressHeader(Len(data))
    IN  /\ comp.group_header_count \in 0..8
        /\ (pc = "compress_loop" /\ n >= 1) =>
              /\ comp.group_header_count = ((n - 1) % 8) + 1
              /\ comp.group_header_pos =
                     Len(size_header) + Len(Framed(SubSeq(tokens, 1, 8 * ((n - 1) \div 8))))
              /\ SetByte(comp.out_buf, comp.group_header_pos,
                         ShlU8(comp.group_header, 8 - comp.group_header_count))
                   = size_header \o Framed(tokens)
        /\ (Compressed /\ n >= 1) => comp.out_buf = size_header \o Framed(tokens)

\* compress returned a stream of 9 tokens: a full group and a group of one
GroupFramingWitness ==
    Compressed /\ Len(tokens) = 9 /\ \E k \in 1..9 : tokens[k].distance # 0

====
